---- MODULE Spec2Model ----
(***************************************************************************)
(* Model of drivers/char/gpiomem.c (sunxi-gpiomem).                        *)
(*                                                                         *)
(* One platform thread runs sunxi_gpiomem_probe and later                  *)
(* sunxi_gpiomem_remove, one step per statement that touches driver state  *)
(* or calls a registration primitive.  User-space callers run open,        *)
(* release and mmap through the character device while it is registered;   *)
(* a call is two steps (entry through the cdev, then the handler body) so  *)
(* that it can be in flight while probe or remove advances.                *)
(*                                                                         *)
(* unsigned long is WordBits wide (arithmetic modulo WordMod).  A read     *)
(* through inst when inst is NULL or already freed is undefined behaviour: *)
(* the model takes every outcome (stale data, arbitrary data, oops).       *)
(***************************************************************************)
EXTENDS Integers, Sequences, FiniteSets

\* ------------------------------------------------------------------ sizes

\* Width of unsigned long in the model (BITS_PER_LONG, scaled down).
WordBits == 16
\* Number of concurrent user-space callers.
NumCallers == 2

PAGE_SHIFT == 12
DEVICE_MINOR == 0
CAPACITY == 32
REG_CELLS == 4

ENOENT == 2
ENXIO == 6
EAGAIN == 11
ENOMEM == 12
EACCES == 13
EINVAL == 22

RECURSIVE Pow2(_)
Pow2(n) == IF n = 0 THEN 1 ELSE 2 * Pow2(n - 1)

WordMod == Pow2(WordBits)
PAGE_SIZE == Pow2(PAGE_SHIFT)

\* unsigned long arithmetic
UAdd(a, b) == (a + b) % WordMod
USub(a, b) == (a + WordMod - b) % WordMod
UShl(a, s) == (a * Pow2(s)) % WordMod

\* C integer division truncates toward zero.
CDiv(a, b) == IF a >= 0 THEN a \div b ELSE -((-a) \div b)

\* ------------------------------------------------------------- platform

\* struct regs_phys
Region(s, e) == [start |-> s, end |-> e]
ZeroRegion == Region(0, 0)

\* Resource layouts a board can describe.  "windows": sub-page register
\* windows inside one page, end inclusive as struct resource has it.
\* "pages": page-granular windows whose end is the first byte after.
Boards == {"windows", "pages"}
Resource(board, idx) ==
    IF board = "windows"
    THEN Region(8 * PAGE_SIZE + 64 * idx, 8 * PAGE_SIZE + 64 * idx + 63)
    ELSE IF idx = 0 THEN Region(8 * PAGE_SIZE, 10 * PAGE_SIZE)
    ELSE IF idx = 1 THEN Region(12 * PAGE_SIZE, 13 * PAGE_SIZE)
    ELSE Region(14 * PAGE_SIZE + 16 * idx, 14 * PAGE_SIZE + 16 * idx + 16)

\* Results of of_property_count_elems_of_size(np, "reg", sizeof(u32)):
\* a negative errno or the number of u32 cells.
ElemCounts == {-EINVAL, 0, 3, 4, 8, CAPACITY * REG_CELLS,
               (CAPACITY + 1) * REG_CELLS}
\* Number of IORESOURCE_MEM resources the platform device carries.
ResourceCounts == {0, 1, CAPACITY - 1, CAPACITY}
\* The primitive of probe that fails, if any.
Failures == {"none", "kzalloc", "alloc_chrdev_region", "cdev_add",
             "class_create", "device_create"}

\* The platform devices probe is tried on: every count with every number
\* of resources on the "windows" board with no failing primitive, the
\* fully populated boards, and each failing primitive on one of them.
Platforms ==
    {p \in [elems : ElemCounts, nres : ResourceCounts,
            board : Boards, fail : Failures] :
        \/ p.fail = "none" /\ p.board = "windows" /\ p.nres < CAPACITY
        \/ p.fail = "none" /\ p.nres = CAPACITY
        \/ p.elems = 2 * REG_CELLS /\ p.nres = CAPACITY /\ p.board = "pages"}
NoPlatform == [elems |-> 0, nres |-> 0, board |-> "windows", fail |-> "none"]

\* platform_get_resource(pdev, IORESOURCE_MEM, idx) # NULL
Resolves(p, idx) == idx < p.nres

\* ---------------------------------------------------------------- state

VARIABLES
    pstate,               \* position of the platform thread in probe/remove
    plat,                 \* the platform device handed to probe
    inst,                 \* global inst: "NULL", "valid" or "freed"
    inst_dev,             \* inst->dev has been stored
    gpio_area_count,      \* inst->gpio_area_count
    gpio_regs_phys,       \* inst->gpio_regs_phys[32], index idx at idx + 1
    i,                    \* probe's loop index
    err,                  \* probe's err
    sunxi_gpiomem_devid,  \* chrdev region allocated
    sunxi_gpiomem_cdev,   \* cdev added (the device can be opened)
    sunxi_gpiomem_class,  \* class created
    sunxi_gpiomem_dev,    \* device node created
    acquired,             \* registration primitives that succeeded, in order
    released,             \* release primitives called, in order
    kfree_count,          \* number of kfree(inst) calls
    bad_deref,            \* "none", or how probe dereferenced an invalid inst
    caller                \* per caller: the call in flight or just finished

vars == <<pstate, plat, inst, inst_dev, gpio_area_count, gpio_regs_phys, i,
          err, sunxi_gpiomem_devid, sunxi_gpiomem_cdev, sunxi_gpiomem_class,
          sunxi_gpiomem_dev, acquired, released, kfree_count, bad_deref,
          caller>>

instVars == <<inst, inst_dev, gpio_area_count, gpio_regs_phys>>
regVars == <<sunxi_gpiomem_devid, sunxi_gpiomem_cdev, sunxi_gpiomem_class,
             sunxi_gpiomem_dev>>
logVars == <<acquired, released, kfree_count, bad_deref>>
driverVars == <<pstate, plat, inst, inst_dev, gpio_area_count,
                gpio_regs_phys, i, err, sunxi_gpiomem_devid,
                sunxi_gpiomem_cdev, sunxi_gpiomem_class, sunxi_gpiomem_dev,
                acquired, released, kfree_count, bad_deref>>

Callers == 1..NumCallers

NoVma == [vm_start |-> 0, vm_end |-> 0, vm_pgoff |-> 0]
NoRemap == [addr |-> 0, pfn |-> 0, size |-> 0]
Idle == [pc |-> "idle", op |-> "none", minor |-> 0, vma |-> NoVma,
         ret |-> 0, found |-> FALSE, remap |-> "none", fwd |-> NoRemap]
\* The caller's task was killed by a fault inside a handler.
Oops == [Idle EXCEPT !.pc = "oops"]

Init ==
    /\ pstate = "unbound"
    /\ plat = NoPlatform
    /\ inst = "NULL"
    /\ inst_dev = FALSE
    /\ gpio_area_count = 0
    /\ gpio_regs_phys = [k \in 1..CAPACITY |-> ZeroRegion]
    /\ i = 0
    /\ err = 0
    /\ sunxi_gpiomem_devid = FALSE
    /\ sunxi_gpiomem_cdev = FALSE
    /\ sunxi_gpiomem_class = FALSE
    /\ sunxi_gpiomem_dev = FALSE
    /\ acquired = <<>>
    /\ released = <<>>
    /\ kfree_count = 0
    /\ bad_deref = "none"
    /\ caller = [c \in Callers |-> Idle]

\* ---------------------------------------------------------------- probe

\* gpio_area_count = of_property_count_elems_of_size(...) / 4
AreaCount(elems) == CDiv(elems, REG_CELLS)

\* The guard of line 141 with its lower bound off by one.
CountInvalidZeroPasses(n) == n > CAPACITY \/ n < 0

\* The guard of line 141.
CountInvalid(n) == n > CAPACITY \/ n <= 0

\* inst = kzalloc(...); if (!inst) { err = -ENOMEM; goto failed_inst_alloc; }
Probe_kzalloc ==
    /\ pstate = "unbound"
    /\ \E p \in Platforms :
        /\ plat' = p
        /\ IF p.fail = "kzalloc"
           THEN /\ inst' = "NULL"
                /\ err' = -ENOMEM
                /\ pstate' = "failed_inst_alloc"
           ELSE /\ inst' = "valid"
                /\ err' = 0
                /\ pstate' = "count"
    /\ inst_dev' = FALSE
    /\ gpio_area_count' = 0
    /\ gpio_regs_phys' = [k \in 1..CAPACITY |-> ZeroRegion]
    /\ i' = 0
    /\ UNCHANGED <<regVars, logVars, caller>>

\* inst->dev = dev; inst->gpio_area_count = ...; the range check of the
\* count; the first test of the for loop that follows.
Probe_count ==
    /\ pstate = "count"
    /\ inst_dev' = TRUE
    /\ gpio_area_count' = AreaCount(plat.elems)
    /\ IF CountInvalid(AreaCount(plat.elems))
       THEN /\ err' = -EINVAL
            /\ pstate' = "failed_inst_alloc"
       ELSE /\ err' = err
            /\ pstate' = IF 0 < AreaCount(plat.elems)
                         THEN "resources" ELSE "alloc_chrdev_region"
    /\ UNCHANGED <<plat, inst, gpio_regs_phys, i, regVars, logVars, caller>>

\* One iteration of the for loop over the resources, with the test that
\* follows its ++i.
Probe_resource ==
    /\ pstate = "resources"
    /\ i < gpio_area_count
    /\ IF Resolves(plat, i)
       THEN /\ gpio_regs_phys' =
                  [gpio_regs_phys EXCEPT ![i + 1] = Resource(plat.board, i)]
            /\ i' = i + 1
            /\ err' = err
            /\ pstate' = IF i + 1 < gpio_area_count
                         THEN "resources" ELSE "alloc_chrdev_region"
       ELSE /\ err' = -ENOENT
            /\ pstate' = "failed_get_resource"
            /\ UNCHANGED <<gpio_regs_phys, i>>
    /\ UNCHANGED <<plat, inst, inst_dev, gpio_area_count, regVars, logVars,
                   caller>>

\* err = alloc_chrdev_region(&sunxi_gpiomem_devid, DEVICE_MINOR, 1, ...)
Probe_alloc_chrdev_region ==
    /\ pstate = "alloc_chrdev_region"
    /\ IF plat.fail = "alloc_chrdev_region"
       THEN /\ err' = -ENOMEM
            /\ pstate' = "failed_alloc_chrdev"
            /\ UNCHANGED <<sunxi_gpiomem_devid, acquired>>
       ELSE /\ err' = 0
            /\ sunxi_gpiomem_devid' = TRUE
            /\ acquired' = Append(acquired, "chrdev_region")
            /\ pstate' = "cdev_add"
    /\ UNCHANGED <<plat, instVars, i, sunxi_gpiomem_cdev,
                   sunxi_gpiomem_class, sunxi_gpiomem_dev, released,
                   kfree_count, bad_deref, caller>>

\* cdev_init(...); err = cdev_add(&sunxi_gpiomem_cdev, sunxi_gpiomem_devid, 1)
Probe_cdev_add ==
    /\ pstate = "cdev_add"
    /\ IF plat.fail = "cdev_add"
       THEN /\ err' = -ENOMEM
            /\ pstate' = "failed_cdev_add"
            /\ UNCHANGED <<sunxi_gpiomem_cdev, acquired>>
       ELSE /\ err' = 0
            /\ sunxi_gpiomem_cdev' = TRUE
            /\ acquired' = Append(acquired, "cdev")
            /\ pstate' = "class_create"
    /\ UNCHANGED <<plat, instVars, i, sunxi_gpiomem_devid,
                   sunxi_gpiomem_class, sunxi_gpiomem_dev, released,
                   kfree_count, bad_deref, caller>>

\* sunxi_gpiomem_class = class_create(...); err = IS_ERR(sunxi_gpiomem_class)
Probe_class_create ==
    /\ pstate = "class_create"
    /\ IF plat.fail = "class_create"
       THEN /\ err' = 1
            /\ pstate' = "failed_class_create"
            /\ UNCHANGED <<sunxi_gpiomem_class, acquired>>
       ELSE /\ err' = 0
            /\ sunxi_gpiomem_class' = TRUE
            /\ acquired' = Append(acquired, "class")
            /\ pstate' = "device_create"
    /\ UNCHANGED <<plat, instVars, i, sunxi_gpiomem_devid,
                   sunxi_gpiomem_cdev, sunxi_gpiomem_dev, released,
                   kfree_count, bad_deref, caller>>

\* sunxi_gpiomem_dev = device_create(...); err = IS_ERR(sunxi_gpiomem_dev);
\* on success the logging loop and return 0.
Probe_device_create ==
    /\ pstate = "device_create"
    /\ IF plat.fail = "device_create"
       THEN /\ err' = 1
            /\ pstate' = "failed_device_create"
            /\ UNCHANGED <<sunxi_gpiomem_dev, acquired>>
       ELSE /\ err' = 0
            /\ sunxi_gpiomem_dev' = TRUE
            /\ acquired' = Append(acquired, "device")
            /\ pstate' = "bound"
    /\ UNCHANGED <<plat, instVars, i, sunxi_gpiomem_devid,
                   sunxi_gpiomem_cdev, sunxi_gpiomem_class, released,
                   kfree_count, bad_deref, caller>>

\* failed_device_create: class_destroy(sunxi_gpiomem_class);
Unwind_failed_device_create ==
    /\ pstate = "failed_device_create"
    /\ sunxi_gpiomem_class' = FALSE
    /\ released' = Append(released, "class")
    /\ pstate' = "failed_class_create"
    /\ UNCHANGED <<plat, instVars, i, err, sunxi_gpiomem_devid,
                   sunxi_gpiomem_cdev, sunxi_gpiomem_dev, acquired,
                   kfree_count, bad_deref, caller>>

\* failed_class_create: cdev_del(&sunxi_gpiomem_cdev);
Unwind_failed_class_create ==
    /\ pstate = "failed_class_create"
    /\ sunxi_gpiomem_cdev' = FALSE
    /\ released' = Append(released, "cdev")
    /\ pstate' = "failed_cdev_add"
    /\ UNCHANGED <<plat, instVars, i, err, sunxi_gpiomem_devid,
                   sunxi_gpiomem_class, sunxi_gpiomem_dev, acquired,
                   kfree_count, bad_deref, caller>>

\* failed_cdev_add: unregister_chrdev_region(sunxi_gpiomem_devid, 1);
Unwind_failed_cdev_add ==
    /\ pstate = "failed_cdev_add"
    /\ sunxi_gpiomem_devid' = FALSE
    /\ released' = Append(released, "chrdev_region")
    /\ pstate' = "failed_alloc_chrdev"
    /\ UNCHANGED <<plat, instVars, i, err, sunxi_gpiomem_cdev,
                   sunxi_gpiomem_class, sunxi_gpiomem_dev, acquired,
                   kfree_count, bad_deref, caller>>

\* failed_alloc_chrdev: failed_get_resource: kfree(inst);
\* The global inst keeps pointing at the freed object.
Unwind_kfree ==
    /\ pstate \in {"failed_alloc_chrdev", "failed_get_resource"}
    /\ inst' = "freed"
    /\ kfree_count' = kfree_count + 1
    /\ pstate' = "failed_inst_alloc"
    /\ UNCHANGED <<plat, inst_dev, gpio_area_count, gpio_regs_phys, i, err,
                   regVars, acquired, released, bad_deref, caller>>

\* failed_inst_alloc: dev_err(inst->dev, ...); return err;
\* With inst valid the read is defined and probe returns err.  With inst
\* NULL or freed the read is undefined: probe either gets a pointer it can
\* log through and returns err, or faults in dev_err.
Unwind_failed_inst_alloc ==
    /\ pstate = "failed_inst_alloc"
    /\ IF inst = "valid"
       THEN /\ pstate' = "probe_failed"
            /\ bad_deref' = bad_deref
       ELSE /\ pstate' \in {"probe_failed", "probe_oops"}
            /\ bad_deref' = inst
    /\ UNCHANGED <<plat, instVars, i, err, regVars, acquired, released,
                   kfree_count, caller>>

\* --------------------------------------------------------------- remove

\* struct device *dev = inst->dev; kfree(inst);
Remove_kfree ==
    /\ pstate = "bound"
    /\ inst' = "freed"
    /\ kfree_count' = kfree_count + 1
    /\ pstate' = "device_destroy"
    /\ UNCHANGED <<plat, inst_dev, gpio_area_count, gpio_regs_phys, i, err,
                   regVars, acquired, released, bad_deref, caller>>

\* device_destroy(sunxi_gpiomem_class, sunxi_gpiomem_devid);
Remove_device_destroy ==
    /\ pstate = "device_destroy"
    /\ sunxi_gpiomem_dev' = FALSE
    /\ released' = Append(released, "device")
    /\ pstate' = "class_destroy"
    /\ UNCHANGED <<plat, instVars, i, err, sunxi_gpiomem_devid,
                   sunxi_gpiomem_cdev, sunxi_gpiomem_class, acquired,
                   kfree_count, bad_deref, caller>>

\* class_destroy(sunxi_gpiomem_class);
Remove_class_destroy ==
    /\ pstate = "class_destroy"
    /\ sunxi_gpiomem_class' = FALSE
    /\ released' = Append(released, "class")
    /\ pstate' = "cdev_del"
    /\ UNCHANGED <<plat, instVars, i, err, sunxi_gpiomem_devid,
                   sunxi_gpiomem_cdev, sunxi_gpiomem_dev, acquired,
                   kfree_count, bad_deref, caller>>

\* cdev_del(&sunxi_gpiomem_cdev);
Remove_cdev_del ==
    /\ pstate = "cdev_del"
    /\ sunxi_gpiomem_cdev' = FALSE
    /\ released' = Append(released, "cdev")
    /\ pstate' = "unregister_chrdev_region"
    /\ UNCHANGED <<plat, instVars, i, err, sunxi_gpiomem_devid,
                   sunxi_gpiomem_class, sunxi_gpiomem_dev, acquired,
                   kfree_count, bad_deref, caller>>

\* unregister_chrdev_region(sunxi_gpiomem_devid, 1); dev_info(dev, ...);
\* return 0;
Remove_unregister_chrdev_region ==
    /\ pstate = "unregister_chrdev_region"
    /\ sunxi_gpiomem_devid' = FALSE
    /\ released' = Append(released, "chrdev_region")
    /\ pstate' = "removed"
    /\ UNCHANGED <<plat, instVars, i, err, sunxi_gpiomem_cdev,
                   sunxi_gpiomem_class, sunxi_gpiomem_dev, acquired,
                   kfree_count, bad_deref, caller>>

\* ----------------------------------------------------------------- mmap

\* unsigned long start = vma->vm_pgoff << PAGE_SHIFT;
MmapStart(vma) == UShl(vma.vm_pgoff, PAGE_SHIFT)

\* unsigned long end = start + vma->vm_end - vma->vm_start;
MmapEnd(vma) == USub(UAdd(MmapStart(vma), vma.vm_end), vma.vm_start)

\* The test of lines 88-89 on one table entry.
AreaMatches(r, start, end) == r.start >= start /\ r.end <= end

\* The while loop of lines 87-92: the value of gpio_area when it is left,
\* count when no entry matched.
RECURSIVE MmapScan(_, _, _, _, _)
MmapScan(regs, count, start, end, gpio_area) ==
    IF gpio_area < count
    THEN IF AreaMatches(regs[gpio_area + 1], start, end)
         THEN gpio_area
         ELSE MmapScan(regs, count, start, end, gpio_area + 1)
    ELSE count

\* Control reaches the label found.
MmapFound(regs, count, vma) ==
    MmapScan(regs, count, MmapStart(vma), MmapEnd(vma), 0) < count

\* remap_pfn_range called with the page frame of the truncated start.
RemapArgsFromStart(vma) ==
    [addr |-> vma.vm_start, pfn |-> MmapStart(vma) \div PAGE_SIZE,
     size |-> vma.vm_end - vma.vm_start]

\* The arguments of remap_pfn_range at lines 103-106.
RemapArgs(vma) ==
    [addr |-> vma.vm_start, pfn |-> vma.vm_pgoff,
     size |-> vma.vm_end - vma.vm_start]

\* A failed remap_pfn_range reported as a denial.
MmapRetConflated(found, remap) ==
    IF ~found \/ remap = "fail" THEN -EACCES ELSE 0

\* The value sunxi_gpiomem_mmap returns; remap is "none" when the primitive
\* was not called, else "ok" or "fail".
MmapRet(found, remap) ==
    IF ~found THEN -EACCES
    ELSE IF remap = "fail" THEN -EAGAIN
    ELSE 0

\* A handler that counts the table down while it scans.
TableAfterCallCountedDown(regs, count) ==
    [regs |-> regs, count |-> IF count > 0 THEN count - 1 ELSE 0]

\* The region table as sunxi_gpiomem_open, _release and _mmap leave it:
\* none of them stores through inst.
TableAfterCall(regs, count) == [regs |-> regs, count |-> count]

\* A gate that computes the error and returns success all the same.
GateRetAlwaysOk(minor) == 0

\* The value sunxi_gpiomem_open and sunxi_gpiomem_release return.
GateRet(minor) == IF minor # DEVICE_MINOR THEN -ENXIO ELSE 0

\* --------------------------------------------------------------- callers

Minors == {DEVICE_MINOR, DEVICE_MINOR + 1}

\* Page offsets a caller passes: around the windows of the boards, and one
\* past the last page of the word (vm_pgoff << PAGE_SHIFT wraps there).
WrapPages == WordMod \div PAGE_SIZE
PgOffs == {7, 8, WrapPages + 8}
Lens == {PAGE_SIZE, 2 * PAGE_SIZE}
VmStart == 4 * PAGE_SIZE
Vmas == {[vm_start |-> VmStart, vm_end |-> VmStart + len, vm_pgoff |-> pg] :
            len \in Lens, pg \in PgOffs}

\* A caller enters open, release or mmap through the registered cdev.
Enter(c) ==
    /\ caller[c].pc = "idle"
    /\ sunxi_gpiomem_cdev
    /\ \/ \E op \in {"open", "release"}, m \in Minors :
            caller' = [caller EXCEPT ![c] =
                          [Idle EXCEPT !.pc = "call", !.op = op, !.minor = m]]
       \/ \E v \in Vmas :
            caller' = [caller EXCEPT ![c] =
                          [Idle EXCEPT !.pc = "call", !.op = "mmap", !.vma = v]]
    /\ UNCHANGED driverVars

\* What a handler leaves in the driver's state.
CallFrame ==
    /\ gpio_regs_phys' = TableAfterCall(gpio_regs_phys, gpio_area_count).regs
    /\ gpio_area_count' = TableAfterCall(gpio_regs_phys, gpio_area_count).count
    /\ UNCHANGED <<pstate, plat, inst, inst_dev, i, err, regVars, logVars>>

\* The handler of this call reads through inst: open always (the log line),
\* release on its error branch, mmap always (the scan).
ReadsInst(r) ==
    \/ r.op = "open"
    \/ r.op = "release" /\ r.minor # DEVICE_MINOR
    \/ r.op = "mmap"

\* sunxi_gpiomem_open and sunxi_gpiomem_release.  A read of inst->dev from a
\* freed instance yields a pointer the log call can use, or one it faults on.
Call_gate(c) ==
    /\ caller[c].pc = "call"
    /\ caller[c].op \in {"open", "release"}
    /\ \/ caller' = [caller EXCEPT ![c] =
                        [@ EXCEPT !.pc = "done",
                                  !.ret = GateRet(caller[c].minor)]]
       \/ /\ ReadsInst(caller[c])
          /\ inst # "valid"
          /\ caller' = [caller EXCEPT ![c] = Oops]
    /\ CallFrame

\* sunxi_gpiomem_mmap.  With inst valid the scan reads the table; with inst
\* freed the reads are undefined and the scan may end either way, or fault.
\* remap_pfn_range is called only from the label found, and may fail.
Call_mmap(c) ==
    /\ caller[c].pc = "call"
    /\ caller[c].op = "mmap"
    /\ LET v == caller[c].vma
           founds == IF inst = "valid"
                     THEN {MmapFound(gpio_regs_phys, gpio_area_count, v)}
                     ELSE BOOLEAN
       IN \/ \E f \in founds :
              \E remap \in IF f THEN {"ok", "fail"} ELSE {"none"} :
                caller' = [caller EXCEPT ![c] =
                      [@ EXCEPT !.pc = "done",
                                !.found = f,
                                !.remap = remap,
                                !.fwd = IF remap = "none" THEN NoRemap
                                        ELSE RemapArgs(v),
                                !.ret = MmapRet(f, remap)]]
          \/ /\ inst # "valid"
             /\ caller' = [caller EXCEPT ![c] = Oops]
    /\ CallFrame

\* The call has returned to user space; the caller may call again.
Return(c) ==
    /\ caller[c].pc = "done"
    /\ caller' = [caller EXCEPT ![c] = Idle]
    /\ UNCHANGED driverVars

\* ------------------------------------------------------------------ spec

Probe ==
    \/ Probe_kzalloc
    \/ Probe_count
    \/ Probe_resource
    \/ Probe_alloc_chrdev_region
    \/ Probe_cdev_add
    \/ Probe_class_create
    \/ Probe_device_create
    \/ Unwind_failed_device_create
    \/ Unwind_failed_class_create
    \/ Unwind_failed_cdev_add
    \/ Unwind_kfree
    \/ Unwind_failed_inst_alloc

Remove ==
    \/ Remove_kfree
    \/ Remove_device_destroy
    \/ Remove_class_destroy
    \/ Remove_cdev_del
    \/ Remove_unregister_chrdev_region

Call(c) ==
    \/ Enter(c)
    \/ Call_gate(c)
    \/ Call_mmap(c)
    \/ Return(c)

Next ==
    \/ Probe
    \/ Remove
    \/ \E c \in Callers : Call(c)

Spec == Init /\ [][Next]_vars

\* ------------------------------------------------------------ properties

RECURSIVE Reverse(_)
Reverse(seq) ==
    IF seq = <<>> THEN <<>> ELSE Append(Reverse(Tail(seq)), Head(seq))

\* A caller whose mmap has returned.
DoneMmap(c) == caller[c].pc = "done" /\ caller[c].op = "mmap"
\* A caller whose open or release has returned.
DoneGate(c) == caller[c].pc = "done" /\ caller[c].op \in {"open", "release"}

\* The physical interval [a, b) of a request, not reduced to the word.
ReqA(vma) == vma.vm_pgoff * PAGE_SIZE
ReqB(vma) == ReqA(vma) + (vma.vm_end - vma.vm_start)

\* Some entry of the table contains [a, b).
Contained(regs, count, a, b) ==
    \E k \in 1..count : regs[k].start <= a /\ b <= regs[k].end

\* probe has returned or faulted.
ProbeEnded ==
    pstate \in {"probe_failed", "probe_oops", "bound", "device_destroy",
                "class_destroy", "cdev_del", "unregister_chrdev_region",
                "removed"}
ProbeSucceeded == ProbeEnded /\ pstate \notin {"probe_failed", "probe_oops"}
NothingRegistered ==
    /\ acquired = <<>>
    /\ ~sunxi_gpiomem_devid /\ ~sunxi_gpiomem_cdev
    /\ ~sunxi_gpiomem_class /\ ~sunxi_gpiomem_dev

\* C1: against the table of a bound driver, mmap admits a request (reaches
\* remap_pfn_range) exactly when some region r of the table has
\* r.start <= a and b <= r.end; otherwise it returns -EACCES without
\* calling the primitive.
C1_ContainmentAdmission ==
    \A c \in Callers :
        (DoneMmap(c) /\ pstate = "bound") =>
            LET r == caller[c]
                in == Contained(gpio_regs_phys, gpio_area_count,
                                ReqA(r.vma), ReqB(r.vma))
            IN  /\ (r.remap # "none") <=> in
                /\ ~in => r.ret = -EACCES

\* C2: whenever mmap calls remap_pfn_range, the page frame and size it
\* passes are the request's vm_pgoff and vm_end - vm_start.
C2_ForwardsRequestRange ==
    \A c \in Callers :
        (DoneMmap(c) /\ caller[c].remap # "none") =>
            /\ caller[c].fwd.pfn = caller[c].vma.vm_pgoff
            /\ caller[c].fwd.size = caller[c].vma.vm_end - caller[c].vma.vm_start
            /\ caller[c].fwd.addr = caller[c].vma.vm_start

\* An admitted request that wrapped in the check and is longer than the
\* region that admitted it has been forwarded.
C2_Witness ==
    \E c \in Callers :
        /\ DoneMmap(c) /\ caller[c].remap = "ok" /\ inst = "valid"
        /\ caller[c].vma.vm_pgoff >= WrapPages
        /\ caller[c].fwd.size = 2 * PAGE_SIZE
        /\ plat.board = "windows"

\* C3: with the instance allocated, a region count <= 0 or > 32 makes probe
\* fail with -EINVAL and nothing is ever registered; a count in 1..32 whose
\* descriptors all resolve is accepted, and with no failing registration
\* primitive probe succeeds with that count.
C3_CapacityBound ==
    LET n == AreaCount(plat.elems)
    IN  (pstate \notin {"unbound", "count"} /\ plat.fail # "kzalloc") =>
          /\ (n <= 0 \/ n > 32) =>
                /\ pstate \in {"failed_inst_alloc", "probe_failed"}
                /\ err = -EINVAL
                /\ NothingRegistered
          /\ (n >= 1 /\ n <= 32 /\ plat.nres >= n) =>
                /\ err \notin {-EINVAL, -ENOENT}
                /\ pstate # "failed_get_resource"
                /\ (ProbeEnded /\ plat.fail = "none") =>
                      (ProbeSucceeded /\ err = 0 /\ gpio_area_count = n)

\* probe has returned -EINVAL for 33 descriptors.
C3_Witness ==
    /\ pstate = "probe_failed"
    /\ AreaCount(plat.elems) = CAPACITY + 1
    /\ err = -EINVAL

\* probe has succeeded with exactly 32 regions.
C3_WitnessFull ==
    /\ pstate = "bound"
    /\ gpio_area_count = CAPACITY

\* C4: every open and release that returns, returns 0 for minor
\* DEVICE_MINOR and -ENXIO for any other minor, whatever ran before; on a
\* valid instance every such call returns; and no step of a caller changes
\* the driver's state.
C4_IdentityGate ==
    /\ [](\A c \in Callers :
            DoneGate(c) =>
                caller[c].ret = IF caller[c].minor = 0 THEN 0 ELSE -ENXIO)
    /\ [][\A c \in Callers :
            /\ (caller[c].pc = "call" /\ caller'[c].pc = "oops") =>
                    inst # "valid"
            /\ (caller[c] # caller'[c]) => UNCHANGED driverVars]_vars

\* On the bound driver one caller's open of another minor was refused
\* while another caller's open of the device succeeded.
C4_Witness ==
    /\ pstate = "bound"
    /\ \E c, d \in Callers :
        /\ DoneGate(c) /\ caller[c].op = "open"
        /\ caller[c].minor # DEVICE_MINOR /\ caller[c].ret = -ENXIO
        /\ DoneGate(d) /\ caller[d].op = "open"
        /\ caller[d].minor = DEVICE_MINOR /\ caller[d].ret = 0

\* C5: when a descriptor below the (valid) count does not resolve, probe
\* fails with -ENOENT, the instance is freed and nothing is registered.
C5_UnresolvedDescriptor ==
    LET n == AreaCount(plat.elems)
    IN  (/\ pstate \in {"probe_failed", "probe_oops"}
         /\ plat.fail # "kzalloc"
         /\ n >= 1 /\ n <= 32 /\ plat.nres < n) =>
            /\ pstate = "probe_failed"
            /\ err = -ENOENT
            /\ inst = "freed"
            /\ NothingRegistered

\* C6: mmap returns -EAGAIN exactly when it called remap_pfn_range and the
\* primitive failed, -EACCES exactly when the scan matched no region and
\* the primitive was not called, and 0 exactly when the primitive
\* succeeded; the two error values differ.
C6_ErrorValues ==
    /\ -EAGAIN # -EACCES
    /\ \A c \in Callers :
        DoneMmap(c) =>
            LET r == caller[c]
            IN  /\ r.ret \in {0, -EAGAIN, -EACCES}
                /\ (r.ret = -EAGAIN) <=> (r.found /\ r.remap = "fail")
                /\ (r.ret = -EACCES) <=> (~r.found /\ r.remap = "none")
                /\ (r.ret = 0) <=> (r.found /\ r.remap = "ok")
                /\ inst = "valid" =>
                     ((r.ret = -EACCES) <=>
                        ~MmapFound(gpio_regs_phys, gpio_area_count, r.vma))

\* One caller's admitted request hit a failing primitive while another
\* caller's request was denied.
C6_Witness ==
    /\ inst = "valid"
    /\ \E c, d \in Callers :
        /\ DoneMmap(c) /\ caller[c].ret = -EAGAIN
        /\ DoneMmap(d) /\ caller[d].ret = -EACCES

\* C7: between a successful probe and remove the table is the one probe
\* built; no step of any caller changes gpio_regs_phys or gpio_area_count;
\* and every returned mmap, whenever it ran, was admitted exactly if the
\* same request is admitted now, so equal requests of different callers
\* got equal answers.
C7_TableImmutable ==
    /\ [](pstate = "bound" =>
            /\ gpio_area_count = AreaCount(plat.elems)
            /\ \A k \in 1..CAPACITY :
                gpio_regs_phys[k] = IF k <= gpio_area_count
                                    THEN Resource(plat.board, k - 1)
                                    ELSE ZeroRegion
            /\ \A c \in Callers :
                DoneMmap(c) =>
                    caller[c].found = MmapFound(gpio_regs_phys,
                                                gpio_area_count, caller[c].vma)
            /\ \A c, d \in Callers :
                (DoneMmap(c) /\ DoneMmap(d) /\ caller[c].vma = caller[d].vma)
                    => caller[c].found = caller[d].found)
    /\ [][\A c \in Callers :
            (caller[c] # caller'[c]) =>
                /\ gpio_regs_phys' = gpio_regs_phys
                /\ gpio_area_count' = gpio_area_count]_vars

\* Two callers issued the same request against the bound driver, one got
\* the mapping and one a failing primitive, while the table is unchanged.
C7_Witness ==
    /\ pstate = "bound"
    /\ \E c, d \in Callers :
        /\ c # d
        /\ DoneMmap(c) /\ DoneMmap(d)
        /\ caller[c].vma = caller[d].vma
        /\ caller[c].ret = 0 /\ caller[d].ret = -EAGAIN

\* C8: there is no state in which the instance has been freed, the cdev is
\* still registered and a handler that reads through inst is in flight.
C8_TeardownOrdering ==
    ~(/\ inst = "freed"
      /\ sunxi_gpiomem_cdev
      /\ \E c \in Callers : caller[c].pc = "call" /\ ReadsInst(caller[c]))

\* C9: on every failure path of probe inst is not dereferenced while NULL
\* or freed, an allocated instance is freed exactly once, and what was
\* registered is released in reverse order.
C9_FailurePaths ==
    pstate \in {"probe_failed", "probe_oops"} =>
        /\ bad_deref = "none"
        /\ plat.fail # "kzalloc" => kfree_count = 1
        /\ released = Reverse(acquired)

\* C10: a request admitted by a bound driver did not wrap: start and end
\* as mmap computed them are the true bounds of the physical range that is
\* mapped.
C10_NoWrapAdmitted ==
    \A c \in Callers :
        (DoneMmap(c) /\ pstate = "bound" /\ caller[c].remap # "none") =>
            /\ MmapStart(caller[c].vma) = ReqA(caller[c].vma)
            /\ MmapEnd(caller[c].vma) = ReqB(caller[c].vma)

====
